---------------------------- MODULE Spec2Model ----------------------------
(***************************************************************************)
(* Model of subnetear.py, an IPv4 subnetting helper.                       *)
(*                                                                         *)
(* Python integers are unbounded, while addresses and block sizes go up to *)
(* 2^32.  A Python int is therefore a two-limb number <<hi, lo>> of value  *)
(* hi * 2^16 + lo with lo in 0..2^16-1 (hi carries the sign).  A dotted    *)
(* string "a.b.c.d" is the tuple <<a, b, c, d>>, the string "a.b.c.d/p" is *)
(* <<a, b, c, d, p>>, and an ipaddress.IPv4Network is the record           *)
(* [addr |-> Num, prefixlen |-> 0..32].                                    *)
(***************************************************************************)
EXTENDS Integers, Sequences, FiniteSets, TLC

\* ------------------------------------------------------------ bounds
\* A split is explored when it yields at most 2^MaxBits children.
MaxBits == 3
\* Counts and host requirements are drawn from MinArg..MaxArg, plus the large
\* values of BigArgs.
MaxArg == 9

\* ------------------------------------------------- Python int arithmetic
Base == 2^16

FromInt(i) == <<i \div Base, i % Base>>

NAdd(a, b) ==
    LET s == a[2] + b[2]
    IN  <<a[1] + b[1] + (s \div Base), s % Base>>

NSub(a, b) ==
    LET d == a[2] - b[2]
    IN  IF d >= 0 THEN <<a[1] - b[1], d>> ELSE <<a[1] - b[1] - 1, d + Base>>

NLt(a, b) == a[1] < b[1] \/ (a[1] = b[1] /\ a[2] < b[2])

NLe(a, b) == a = b \/ NLt(a, b)

\* 2 ** k
NPow2(k) == IF k < 16 THEN <<0, 2^k>> ELSE <<2^(k - 16), 0>>

\* x >> k, for x >= 0
NShr(x, k) ==
    IF k >= 16
    THEN <<0, x[1] \div 2^(k - 16)>>
    ELSE <<x[1] \div 2^k, (x[1] % 2^k) * 2^(16 - k) + (x[2] \div 2^k)>>

RECURSIVE BitAnd(_, _)
BitAnd(a, b) ==
    IF a = 0 \/ b = 0 THEN 0
    ELSE (a % 2) * (b % 2) + 2 * BitAnd(a \div 2, b \div 2)

RECURSIVE BitOr(_, _)
BitOr(a, b) ==
    IF a = 0 THEN b
    ELSE IF b = 0 THEN a
    ELSE (IF a % 2 = 1 \/ b % 2 = 1 THEN 1 ELSE 0) + 2 * BitOr(a \div 2, b \div 2)

RECURSIVE BitXor(_, _)
BitXor(a, b) ==
    IF a = 0 THEN b
    ELSE IF b = 0 THEN a
    ELSE ((a + b) % 2) + 2 * BitXor(a \div 2, b \div 2)

\* x & y, x | y, x ^ y for x, y >= 0
NAnd(x, y) == <<BitAnd(x[1], y[1]), BitAnd(x[2], y[2])>>
NOr(x, y)  == <<BitOr(x[1], y[1]), BitOr(x[2], y[2])>>
NXor(x, y) == <<BitXor(x[1], y[1]), BitXor(x[2], y[2])>>

\* math.log2 raises ValueError("math domain error") for n <= 0
Log2DomainError(n) == n[1] < 0 \/ n = <<0, 0>>

\* math.ceil(math.log2(n)) for n >= 1: the double log2(n) is exact for a power
\* of two and strictly between k and k+1 for 2^k < n < 2^(k+1) in the range
\* of the model, so the ceiling is the number of halvings that reach 1.
\* Mutant of CeilLog2: the logarithm rounded down.
RECURSIVE FloorLog2(_)
FloorLog2(n) ==
    IF NLe(n, <<0, 1>>) THEN 0
    ELSE 1 + FloorLog2(NShr(n, 1))

RECURSIVE CeilLog2(_)
CeilLog2(n) ==
    IF NLe(n, <<0, 1>>) THEN 0
    ELSE 1 + CeilLog2(NShr(NAdd(n, <<0, 1>>), 1))

\* ------------------------------------------------- ipaddress (IPv4)
ALL_ONES == <<Base - 1, Base - 1>>

\* IPv4Network._ip_int_from_prefix: ALL_ONES ^ (ALL_ONES >> prefixlen)
ip_int_from_prefix(prefixlen) == NXor(ALL_ONES, NShr(ALL_ONES, prefixlen))

NetmaskTable == [p \in 0..32 |-> ip_int_from_prefix(p)]

netmask(net) == NetmaskTable[net.prefixlen]

\* IPv4Network.hostmask: netmask ^ ALL_ONES
hostmask(net) == NXor(netmask(net), ALL_ONES)

network_address(net) == net.addr

\* IPv4Network.broadcast_address: network_address | hostmask
broadcast_address(net) == NOr(network_address(net), hostmask(net))

\* IPv4Network.num_addresses: broadcast_address - network_address + 1
num_addresses(net) ==
    NAdd(NSub(broadcast_address(net), network_address(net)), <<0, 1>>)

\* str(IPv4Address): the four octets, most significant first
Dotted(a) == <<a[1] \div 256, a[1] % 256, a[2] \div 256, a[2] % 256>>

\* str(IPv4Network): "a.b.c.d/p"
StrNet(net) == Dotted(network_address(net)) \o <<net.prefixlen>>

\* ipaddress.ip_network(raw, strict=False): the host bits are masked off
ip_network(address, prefixlen) ==
    [addr |-> NAnd(address, NetmaskTable[prefixlen]), prefixlen |-> prefixlen]

\* range(start, end, step)
RECURSIVE Range(_, _, _)
Range(start, end, step) ==
    IF NLt(start, end) THEN <<start>> \o Range(NAdd(start, step), end, step)
    ELSE <<>>

\* Mutant of subnets: the range stops at the broadcast address.
subnets_short(net, new_prefix) ==
    IF net.prefixlen = 32 THEN <<net>>
    ELSE LET prefixlen_diff == new_prefix - net.prefixlen
             start == network_address(net)
             end   == broadcast_address(net)
             step  == NShr(NAdd(hostmask(net), <<0, 1>>), prefixlen_diff)
             addrs == Range(start, end, step)
         IN  [i \in 1..Len(addrs) |-> [addr |-> addrs[i], prefixlen |-> new_prefix]]

\* list(net.subnets(new_prefix=new_prefix)), for
\* net.prefixlen <= new_prefix <= 32
subnets(net, new_prefix) ==
    IF net.prefixlen = 32 THEN <<net>>
    ELSE LET prefixlen_diff == new_prefix - net.prefixlen
             start == network_address(net)
             end   == NAdd(broadcast_address(net), <<0, 1>>)
             step  == NShr(NAdd(hostmask(net), <<0, 1>>), prefixlen_diff)
             addrs == Range(start, end, step)
         IN  [i \in 1..Len(addrs) |-> [addr |-> addrs[i], prefixlen |-> new_prefix]]

\* Mutant of Contains: the network address itself is left out.
ContainsHostsOnly(net, ip) ==
    /\ NLt(network_address(net), ip)
    /\ NLe(ip, broadcast_address(net))

\* ip in net: ip & netmask == network_address
Contains(net, ip) == NAnd(ip, netmask(net)) = network_address(net)


\* ------------------------------------------------- subnetting basics
\* "255.255.255.0 -> 0.0.0.255"
wildcard_from_mask(mask) == [i \in 1..Len(mask) |-> 255 - mask[i]]

\* Mutant of interesting_octet: the 0-based index is returned.
interesting_octet_zero_based(prefix) ==
    LET octets == Dotted(NetmaskTable[prefix])
    IN  IF prefix % 8 = 0
        THEN <<1, prefix \div 8, 255>>
        ELSE LET idx      == prefix \div 8
                 mask_oct == octets[idx + 1]
                 magic    == 256 - mask_oct
             IN  <<magic, idx, mask_oct>>

\* (magic, interesting octet, mask value in that octet)
interesting_octet(prefix) ==
    LET octets == Dotted(NetmaskTable[prefix])
    IN  IF prefix % 8 = 0
        THEN <<1, prefix \div 8, 255>>
        ELSE LET idx      == prefix \div 8
                 mask_oct == octets[idx + 1]
                 magic    == 256 - mask_oct
             IN  <<magic, idx + 1, mask_oct>>

\* Mutant of describe_subnet: a /31 is treated by the classic rule.
describe_subnet_classic_31(net) ==
    LET total == num_addresses(net)
        mask  == Dotted(netmask(net))
        io    == interesting_octet(net.prefixlen)
        one   == <<0, 1>>
        usable == IF net.prefixlen <= 31 THEN NSub(total, <<0, 2>>)
                  ELSE IF net.prefixlen = 31 THEN <<0, 2>>
                  ELSE <<0, 1>>
        first == IF net.prefixlen <= 31
                 THEN Dotted(NAdd(network_address(net), one))
                 ELSE Dotted(network_address(net))
        last  == IF net.prefixlen <= 31
                 THEN Dotted(NSub(broadcast_address(net), one))
                 ELSE IF net.prefixlen = 31
                 THEN Dotted(broadcast_address(net))
                 ELSE Dotted(network_address(net))
    IN  [subnet            |-> StrNet(net),
         netmask           |-> mask,
         wildcard          |-> wildcard_from_mask(mask),
         network           |-> Dotted(network_address(net)),
         broadcast         |-> Dotted(broadcast_address(net)),
         first_host        |-> first,
         last_host         |-> last,
         usable_hosts      |-> usable,
         magic_number      |-> io[1],
         interesting_octet |-> io[2],
         mask_octet_value  |-> io[3]]

describe_subnet(net) ==
    LET total == num_addresses(net)
        mask  == Dotted(netmask(net))
        io    == interesting_octet(net.prefixlen)
        one   == <<0, 1>>
        usable == IF net.prefixlen <= 30 THEN NSub(total, <<0, 2>>)
                  ELSE IF net.prefixlen = 31 THEN <<0, 2>>
                  ELSE <<0, 1>>
        first == IF net.prefixlen <= 30
                 THEN Dotted(NAdd(network_address(net), one))
                 ELSE Dotted(network_address(net))
        last  == IF net.prefixlen <= 30
                 THEN Dotted(NSub(broadcast_address(net), one))
                 ELSE IF net.prefixlen = 31
                 THEN Dotted(broadcast_address(net))
                 ELSE Dotted(network_address(net))
    IN  [subnet            |-> StrNet(net),
         netmask           |-> mask,
         wildcard          |-> wildcard_from_mask(mask),
         network           |-> Dotted(network_address(net)),
         broadcast         |-> Dotted(broadcast_address(net)),
         first_host        |-> first,
         last_host         |-> last,
         usable_hosts      |-> usable,
         magic_number      |-> io[1],
         interesting_octet |-> io[2],
         mask_octet_value  |-> io[3]]

\* ------------------------------------------------- splitting
\* A call either raises ValueError (raised is its message, ret is empty) or
\* returns the tuple ret = <<new_prefix, subs, bits>>.
Raise(msg) == [raised |-> msg, ret |-> <<>>]
Return(new_prefix, subs, bits) == [raised |-> "", ret |-> <<new_prefix, subs, bits>>]

\* Mutant of subnet_by_count: a new prefix of 32 is refused too.
subnet_by_count_strict(net, n) ==
    IF Log2DomainError(n) THEN Raise("math domain error")
    ELSE LET borrowed_bits == CeilLog2(n)
             new_prefix    == net.prefixlen + borrowed_bits
         IN  IF new_prefix >= 32
             THEN Raise("Zu viele Subnetze")
             ELSE Return(new_prefix, subnets(net, new_prefix), borrowed_bits)

subnet_by_count(net, n) ==
    IF Log2DomainError(n) THEN Raise("math domain error")
    ELSE LET borrowed_bits == CeilLog2(n)
             new_prefix    == net.prefixlen + borrowed_bits
         IN  IF new_prefix > 32
             THEN Raise("Zu viele Subnetze")
             ELSE Return(new_prefix, subnets(net, new_prefix), borrowed_bits)

\* Mutant of subnet_by_hosts: no addresses are reserved.
subnet_by_hosts_no_reserve(net, hosts) ==
    IF NLe(hosts, <<0, 0>>) THEN Raise("Hosts muessen >= 1 sein")
    ELSE LET host_bits  == CeilLog2(hosts)
             new_prefix == 32 - host_bits
         IN  IF new_prefix < net.prefixlen
             THEN Raise("Nicht moeglich")
             ELSE Return(new_prefix, subnets(net, new_prefix), host_bits)

\* Mutant of subnet_by_hosts: one address is reserved instead of two.
subnet_by_hosts_reserve_one(net, hosts) ==
    IF NLe(hosts, <<0, 0>>) THEN Raise("Hosts muessen >= 1 sein")
    ELSE LET host_bits  == CeilLog2(NAdd(hosts, <<0, 1>>))
             new_prefix == 32 - host_bits
         IN  IF new_prefix < net.prefixlen
             THEN Raise("Nicht moeglich")
             ELSE Return(new_prefix, subnets(net, new_prefix), host_bits)

subnet_by_hosts(net, hosts) ==
    IF NLe(hosts, <<0, 0>>) THEN Raise("Hosts muessen >= 1 sein")
    ELSE LET host_bits  == CeilLog2(NAdd(hosts, <<0, 2>>))
             new_prefix == 32 - host_bits
         IN  IF new_prefix < net.prefixlen
             THEN Raise("Nicht moeglich")
             ELSE Return(new_prefix, subnets(net, new_prefix), host_bits)

\* ------------------------------------------------- input
\* ask_int returns v once min_v <= v (and v <= max_v when a maximum is given,
\* max_v = <<m>>; <<>> stands for None); anything else is asked again.
ask_int(v, min_v, max_v) ==
    /\ ~NLt(v, FromInt(min_v))
    /\ \A m \in { max_v[i] : i \in 1..Len(max_v) } : ~NLt(FromInt(m), v)

\* ask_net: ipaddress.ip_network(raw, strict=False)
ask_net(address, prefixlen) == ip_network(address, prefixlen)

FromOctets(a, b, c, d) == <<a * 256 + b, c * 256 + d>>

\* The addresses typed in: as the address of a network and as a candidate.
Addrs ==
    { FromOctets(192, 168, 1, 130), FromOctets(192, 168, 1, 127),
      FromOctets(192, 168, 2, 1),   FromOctets(10, 0, 0, 0),
      FromOctets(172, 16, 0, 0),    FromOctets(127, 255, 255, 255),
      FromOctets(255, 255, 255, 255), FromOctets(0, 0, 0, 0) }

Prefixes == 0..32

MinArg == 0 - 2

\* Large counts and host requirements: around each prefix boundary.
BigArgs ==
    { FromInt(30), FromInt(31), FromInt(62), FromInt(254), FromInt(255),
      <<1, 0>>, NSub(NPow2(30), <<0, 2>>), NSub(NPow2(32), <<0, 2>>),
      NSub(NPow2(32), <<0, 1>>), NPow2(32), NAdd(NPow2(32), <<0, 1>>) }

Args == { FromInt(i) : i \in MinArg..MaxArg } \cup BigArgs

\* The prefixes typed in, valid or not.
PrefixArgs == { FromInt(i) : i \in (0 - 1)..33 }

\* The exploration bound: a split into more than 2^MaxBits children is not
\* explored.
WithinBound(net, new_prefix) == new_prefix - net.prefixlen <= MaxBits

CountWithinBound(net, n) ==
    \/ Log2DomainError(n)
    \/ net.prefixlen + CeilLog2(n) > 32
    \/ WithinBound(net, net.prefixlen + CeilLog2(n))

HostsWithinBound(net, hosts) ==
    \/ NLe(hosts, <<0, 0>>)
    \/ 32 - CeilLog2(NAdd(hosts, <<0, 2>>)) < net.prefixlen
    \/ WithinBound(net, 32 - CeilLog2(NAdd(hosts, <<0, 2>>)))

\* ------------------------------------------------- state
VARIABLES
    pc,       \* "menu": main waits for a choice; "shown": an operation has printed
              \* its output and is about to return; "crashed": a ValueError left
              \* main; "exit"; "engine", "returned": before and after a direct call
    choice,   \* the operation running ("" at the menu)
    base,     \* <<net>>: the network given, <<>> if none
    arg,      \* <<v>>: the count, target prefix or host requirement, <<>> if none
    ip,       \* <<address>>: the candidate address, <<>> if never asked
    raised,   \* message of the ValueError raised, "" if none
    result,   \* <<new_prefix, subs, bits>>: the prefix, the children and the bits
              \* of the enumeration made, <<>> if none
    infos,    \* the descriptors built
    hit       \* <<net>>: the child found by the lookup, <<>> for None

vars == <<pc, choice, base, arg, ip, raised, result, infos, hit>>

Init ==
    /\ pc = "menu"
    /\ choice = ""
    /\ base = <<>>
    /\ arg = <<>>
    /\ ip = <<>>
    /\ raised = ""
    /\ result = <<>>
    /\ infos = <<>>
    /\ hit = <<>>

DescribeAll(subs) == [i \in 1..Len(subs) |-> describe_subnet(subs[i])]

\* What a split leaves behind: the call's outcome, the descriptors of the
\* children, and the menu again, or the crash when the ValueError escapes main.
AfterSplit(r) ==
    /\ raised' = r.raised
    /\ result' = r.ret
    /\ infos' = IF r.raised = "" THEN DescribeAll(r.ret[2]) ELSE <<>>
    /\ pc' = IF r.raised = "" THEN "shown" ELSE "crashed"

action_split_by_n ==
    /\ pc = "menu"
    /\ \E address \in Addrs, prefixlen \in Prefixes, n \in Args :
         LET b == ask_net(address, prefixlen)
         IN  /\ ask_int(n, 1, <<>>)
             /\ CountWithinBound(b, n)
             /\ choice' = "1"
             /\ base' = <<b>>
             /\ arg' = <<n>>
             /\ AfterSplit(subnet_by_count(b, n))
             /\ ip' = <<>>
             /\ hit' = <<>>

\* Mutant of split_by_prefix: the base prefix itself is refused.
split_by_prefix_strict(net, new_prefix) ==
    IF new_prefix <= net.prefixlen THEN <<>>
    ELSE <<new_prefix, subnets(net, new_prefix), new_prefix - net.prefixlen>>

\* The check and the enumeration of action_split_by_prefix: nothing when the
\* target prefix is refused, else <<new_prefix, subs, bits>>.
split_by_prefix(net, new_prefix) ==
    IF new_prefix < net.prefixlen THEN <<>>
    ELSE <<new_prefix, subnets(net, new_prefix), new_prefix - net.prefixlen>>

action_split_by_prefix ==
    /\ pc = "menu"
    /\ \E address \in Addrs, prefixlen \in Prefixes, p \in PrefixArgs :
         LET b          == ask_net(address, prefixlen)
             new_prefix == p[2]
         IN  /\ ask_int(p, 0, <<32>>)
             /\ WithinBound(b, new_prefix)
             /\ choice' = "2"
             /\ base' = <<b>>
             /\ arg' = <<p>>
             /\ raised' = ""
             /\ pc' = "shown"
             /\ LET r == split_by_prefix(b, new_prefix)
                IN  /\ result' = r
                    /\ infos' = IF r = <<>> THEN <<>> ELSE DescribeAll(r[2])
             /\ ip' = <<>>
             /\ hit' = <<>>

action_split_by_hosts ==
    /\ pc = "menu"
    /\ \E address \in Addrs, prefixlen \in Prefixes, hosts \in Args :
         LET b == ask_net(address, prefixlen)
         IN  /\ ask_int(hosts, 1, <<>>)
             /\ HostsWithinBound(b, hosts)
             /\ choice' = "3"
             /\ base' = <<b>>
             /\ arg' = <<hosts>>
             /\ AfterSplit(subnet_by_hosts(b, hosts))
             /\ ip' = <<>>
             /\ hit' = <<>>

\* for s in subs: if ip in s: hit = s; break
RECURSIVE FirstHit(_, _, _)
FirstHit(subs, i, address) ==
    IF i > Len(subs) THEN <<>>
    ELSE IF Contains(subs[i], address) THEN <<subs[i]>>
    ELSE FirstHit(subs, i + 1, address)

action_ip_in_subnet ==
    /\ pc = "menu"
    /\ \E address \in Addrs, prefixlen \in Prefixes, p \in PrefixArgs :
         LET b             == ask_net(address, prefixlen)
             target_prefix == p[2]
         IN  /\ ask_int(p, 0, <<32>>)
             /\ choice' = "4"
             /\ base' = <<b>>
             /\ arg' = <<p>>
             /\ raised' = ""
             /\ pc' = "shown"
             /\ IF target_prefix < b.prefixlen
                THEN /\ ip' = <<>>
                     /\ hit' = <<>>
                     /\ result' = <<>>
                     /\ infos' = <<>>
                ELSE /\ WithinBound(b, target_prefix)
                     /\ \E candidate \in Addrs :
                          LET subs == subnets(b, target_prefix)
                              h    == FirstHit(subs, 1, candidate)
                          IN  /\ ip' = <<candidate>>
                              /\ hit' = h
                              /\ result' = <<target_prefix, subs, target_prefix - b.prefixlen>>
                              /\ infos' = DescribeAll(h)

action_analyze_network ==
    /\ pc = "menu"
    /\ \E address \in Addrs, prefixlen \in Prefixes :
         LET net == ask_net(address, prefixlen)
         IN  /\ choice' = "5"
             /\ base' = <<net>>
             /\ infos' = <<describe_subnet(net)>>
             /\ raised' = ""
             /\ pc' = "shown"
             /\ arg' = <<>>
             /\ result' = <<>>
             /\ ip' = <<>>
             /\ hit' = <<>>

\* The operation returns, its locals are gone, and main shows the menu again.
main_loop ==
    /\ pc = "shown"
    /\ pc' = "menu"
    /\ choice' = ""
    /\ base' = <<>>
    /\ arg' = <<>>
    /\ ip' = <<>>
    /\ raised' = ""
    /\ result' = <<>>
    /\ infos' = <<>>
    /\ hit' = <<>>

\* choice "0": main returns
action_quit ==
    /\ pc = "menu"
    /\ pc' = "exit"
    /\ choice' = "0"
    /\ UNCHANGED <<base, arg, ip, raised, result, infos, hit>>

Next ==
    \/ action_split_by_n
    \/ action_split_by_prefix
    \/ action_split_by_hosts
    \/ action_ip_in_subnet
    \/ action_analyze_network
    \/ main_loop
    \/ action_quit

Spec == Init /\ [][Next]_vars

\* ------------------------------------------------- the functions called directly
\* subnet_by_count and subnet_by_hosts applied to any network and any integer,
\* without ask_int in front of them.
InitEngine ==
    /\ pc = "engine"
    /\ choice = ""
    /\ base = <<>>
    /\ arg = <<>>
    /\ ip = <<>>
    /\ raised = ""
    /\ result = <<>>
    /\ infos = <<>>
    /\ hit = <<>>

AfterCall(r) ==
    /\ raised' = r.raised
    /\ result' = r.ret
    /\ infos' = IF r.raised = "" THEN DescribeAll(r.ret[2]) ELSE <<>>
    /\ pc' = "returned"

call_subnet_by_count ==
    /\ pc = "engine"
    /\ \E address \in Addrs, prefixlen \in Prefixes, n \in Args :
         LET net == ip_network(address, prefixlen)
         IN  /\ CountWithinBound(net, n)
             /\ choice' = "subnet_by_count"
             /\ base' = <<net>>
             /\ arg' = <<n>>
             /\ AfterCall(subnet_by_count(net, n))
             /\ ip' = <<>>
             /\ hit' = <<>>

call_subnet_by_hosts ==
    /\ pc = "engine"
    /\ \E address \in Addrs, prefixlen \in Prefixes, hosts \in Args :
         LET net == ip_network(address, prefixlen)
         IN  /\ HostsWithinBound(net, hosts)
             /\ choice' = "subnet_by_hosts"
             /\ base' = <<net>>
             /\ arg' = <<hosts>>
             /\ AfterCall(subnet_by_hosts(net, hosts))
             /\ ip' = <<>>
             /\ hit' = <<>>

NextEngine ==
    \/ call_subnet_by_count
    \/ call_subnet_by_hosts

SpecEngine == InitEngine /\ [][NextEngine]_vars

\* ------------------------------------------------- properties
TheBase   == base[1]
TheArg    == arg[1]
NewPrefix == result[1]
Subs      == result[2]
Bits      == result[3]

\* A split has produced children (by count, by target prefix or by hosts).
SplitDone ==
    /\ choice \in {"1", "2", "3", "subnet_by_count", "subnet_by_hosts"}
    /\ result # <<>>

\* The last address of a block of prefix p that starts at address a.
LastOf(a, p) == NAdd(a, NSub(NPow2(32 - p), <<0, 1>>))

RECURSIVE SumAddresses(_, _)
SumAddresses(subs, i) ==
    IF i > Len(subs) THEN <<0, 0>>
    ELSE NAdd(num_addresses(subs[i]), SumAddresses(subs, i + 1))

\* C1: the children of a successful split all have prefix newPrefix, are in
\* strictly ascending address order, do not overlap, are contiguous from the
\* base network address to the base broadcast address, number
\* 2^(newPrefix - basePrefix), and their sizes sum to 2^(32 - basePrefix).
C1_ChildrenPartitionBase ==
    SplitDone =>
        LET b == TheBase
            k == Len(Subs)
        IN  /\ \A i \in 1..k : Subs[i].prefixlen = NewPrefix
            /\ \A i \in 1..(k - 1) : NLt(Subs[i].addr, Subs[i + 1].addr)
            /\ \A i \in 1..k : \A j \in (i + 1)..k :
                   NLt(LastOf(Subs[i].addr, NewPrefix), Subs[j].addr)
            /\ \A i \in 1..(k - 1) :
                   /\ Subs[i + 1].addr = NAdd(LastOf(Subs[i].addr, NewPrefix), <<0, 1>>)
                   /\ Subs[i + 1].addr = NAdd(broadcast_address(Subs[i]), <<0, 1>>)
            /\ k >= 1
            /\ Subs[1].addr = b.addr
            /\ LastOf(Subs[k].addr, NewPrefix) = LastOf(b.addr, b.prefixlen)
            /\ broadcast_address(Subs[k]) = broadcast_address(b)
            /\ k = 2^(NewPrefix - b.prefixlen)
            /\ SumAddresses(Subs, 1) = NPow2(32 - b.prefixlen)
            /\ Len(infos) = k
            /\ \A i \in 1..k : infos[i].subnet = Dotted(Subs[i].addr) \o <<NewPrefix>>

\* 172.16.0.0/24 split for 30 hosts: eight /27 children.
C1_Witness ==
    /\ pc = "shown"
    /\ choice = "3"
    /\ base = <<[addr |-> FromOctets(172, 16, 0, 0), prefixlen |-> 24]>>
    /\ arg = <<FromInt(30)>>
    /\ Len(Subs) = 8
    /\ Subs[8].addr = FromOctets(172, 16, 0, 224)

\* C2: for N >= 1 that fits, subnet_by_count returns the smallest b with
\* 2^b >= N as borrowedBits, newPrefix = basePrefix + b and 2^b children (at
\* least N); for N = 1 the single child is the base network itself.
C2_CountBorrowsCeilLog2 ==
    /\ (choice = "1" /\ pc = "crashed") =>
           /\ NLe(<<0, 1>>, TheArg)
           /\ NLt(NPow2(32 - TheBase.prefixlen), TheArg)
    /\ (choice = "1" /\ pc = "shown") =>
        LET n == TheArg
            b == Bits
        IN  /\ raised = ""
            /\ b >= 0
            /\ NLe(n, NPow2(b))
            /\ (b > 0 => NLt(NPow2(b - 1), n))
            /\ NewPrefix = TheBase.prefixlen + b
            /\ NewPrefix <= 32
            /\ Len(Subs) = 2^b
            /\ NLe(n, FromInt(Len(Subs)))
            /\ (NLt(n, NPow2(b)) => NLt(n, FromInt(Len(Subs))))
            /\ (n = <<0, 1>> => b = 0 /\ NewPrefix = TheBase.prefixlen /\ Subs = <<TheBase>>)

\* 10.0.0.0/24 into N = 3: two bits borrowed, four /26 children.
C2_Witness ==
    /\ pc = "shown"
    /\ choice = "1"
    /\ base = <<[addr |-> FromOctets(10, 0, 0, 0), prefixlen |-> 24]>>
    /\ arg = <<FromInt(3)>>
    /\ result = <<26, [i \in 1..4 |-> [addr |-> FromOctets(10, 0, 0, 64 * (i - 1)),
                                       prefixlen |-> 26]], 2>>

\* C3: subnet_by_count fails, returning nothing, exactly when N <= 0 or
\* basePrefix + ceil(log2 N) > 32; it never clamps the prefix to 32, and it
\* succeeds on every other input.
C3_CountFailsExactly ==
    (choice = "subnet_by_count" /\ pc = "returned") =>
        LET n        == TheArg
            nonpos   == NLe(n, <<0, 0>>)
            \* basePrefix + ceil(log2 N) > 32, i.e. N > 2^(32 - basePrefix)
            overflow == ~nonpos /\ NLt(NPow2(32 - TheBase.prefixlen), n)
        IN  /\ (raised # "") = (nonpos \/ overflow)
            /\ (raised # "") => (result = <<>> /\ infos = <<>>)
            /\ nonpos => raised = "math domain error"
            /\ overflow => raised = "Zu viele Subnetze"
            /\ (raised = "") =>
                   /\ result # <<>>
                   /\ NewPrefix = TheBase.prefixlen + Bits
                   /\ NLe(n, NPow2(Bits))
                   /\ Len(Subs) = 2^Bits

\* A /30 asked for 5 subnets: 3 bits would give /33.
C3_Witness ==
    /\ pc = "returned"
    /\ choice = "subnet_by_count"
    /\ TheBase.prefixlen = 30
    /\ arg = <<FromInt(5)>>
    /\ raised = "Zu viele Subnetze"
    /\ result = <<>>

\* The smallest h >= 0 with 2^h >= n, for 1 <= n <= 2^40.
SmallestPow(n) ==
    CHOOSE h \in 0..40 : NLe(n, NPow2(h)) /\ (h = 0 \/ NLt(NPow2(h - 1), n))

\* C4: subnet_by_hosts takes hostBits as the smallest h with 2^h >= H + 2 and
\* newPrefix = 32 - hostBits; it fails, returning nothing, exactly when
\* H <= 0 or newPrefix < basePrefix (a negative newPrefix included), and
\* otherwise returns newPrefix, hostBits and the children at newPrefix.
C4_HostsPrefixAndFailure ==
    (choice = "subnet_by_hosts" /\ pc = "returned") =>
        LET H      == TheArg
            nonpos == NLe(H, <<0, 0>>)
            hb     == SmallestPow(NAdd(H, <<0, 2>>))
            np     == 32 - hb
            b      == TheBase
        IN  /\ (raised # "") = (nonpos \/ np < b.prefixlen)
            /\ (raised # "") => (result = <<>> /\ infos = <<>>)
            /\ (raised = "") =>
                   /\ result # <<>>
                   /\ NewPrefix = np
                   /\ Bits = hb
                   /\ Len(Subs) = 2^(np - b.prefixlen)
                   /\ \A i \in 1..Len(Subs) :
                          /\ Subs[i].prefixlen = np
                          /\ Subs[i].addr =
                                 IF i = 1 THEN b.addr
                                 ELSE NAdd(Subs[i - 1].addr, NPow2(hb))
                   /\ ((H = FromInt(30) /\ b.prefixlen <= 27) => (hb = 5 /\ NewPrefix = 27))

\* 172.16.0.0/25 with H = 30: hostBits 5, newPrefix 27, four children.
C4_Witness ==
    /\ pc = "returned"
    /\ choice = "subnet_by_hosts"
    /\ base = <<[addr |-> FromOctets(172, 16, 0, 0), prefixlen |-> 25]>>
    /\ arg = <<FromInt(30)>>
    /\ NewPrefix = 27
    /\ Bits = 5
    /\ Len(Subs) = 4

\* The networks the descriptors in infos were built from.
Described ==
    IF choice = "5" THEN base
    ELSE IF choice = "4" THEN hit
    ELSE IF result # <<>> THEN Subs
    ELSE <<>>

\* The address a dotted string denotes.
Parse(o) == FromOctets(o[1], o[2], o[3], o[4])

IsDotted(o) == Len(o) = 4 /\ \A i \in 1..4 : o[i] \in 0..255

\* C5: a descriptor of prefix p has, for p <= 30, usable = 2^(32-p) - 2,
\* first host = network + 1, last host = broadcast - 1; for p = 31, usable 2,
\* first host = network, last host = broadcast; for p = 32, usable 1 and
\* first host = last host = the address.
C5_DescriptorHostRange ==
    /\ Len(infos) = Len(Described)
    /\ \A i \in 1..Len(infos) :
        LET net  == Described[i]
            d    == infos[i]
            p    == net.prefixlen
            bc   == LastOf(net.addr, p)
        IN  /\ IsDotted(d.network) /\ Parse(d.network) = net.addr
            /\ IsDotted(d.broadcast) /\ Parse(d.broadcast) = bc
            /\ IsDotted(d.first_host) /\ IsDotted(d.last_host)
            /\ (p <= 30 =>
                   /\ d.usable_hosts = NSub(NPow2(32 - p), <<0, 2>>)
                   /\ Parse(d.first_host) = NAdd(net.addr, <<0, 1>>)
                   /\ Parse(d.last_host) = NSub(bc, <<0, 1>>))
            /\ (p = 31 =>
                   /\ d.usable_hosts = <<0, 2>>
                   /\ Parse(d.first_host) = net.addr
                   /\ Parse(d.last_host) = bc
                   /\ bc = NAdd(net.addr, <<0, 1>>))
            /\ (p = 32 =>
                   /\ d.usable_hosts = <<0, 1>>
                   /\ Parse(d.first_host) = net.addr
                   /\ Parse(d.last_host) = net.addr)

\* 192.168.1.130/31 analysed: two usable hosts, .130 and .131.
C5_Witness ==
    /\ pc = "shown"
    /\ choice = "5"
    /\ TheBase.prefixlen = 31
    /\ infos[1].usable_hosts = <<0, 2>>
    /\ infos[1].first_host = <<192, 168, 1, 130>>
    /\ infos[1].last_host = <<192, 168, 1, 131>>

C7_OctetIndexIsOneBased ==
    \A i \in 1..Len(infos) :
        /\ infos[i].interesting_octet \in 1..4
        /\ infos[i].mask_octet_value = infos[i].netmask[infos[i].interesting_octet]

\* a mod 2^k cleared from a: the address with its low k bits zero.
ClearLow(a, k) ==
    IF k <= 16 THEN <<a[1], a[2] - (a[2] % 2^k)>>
    ELSE <<a[1] - (a[1] % 2^(k - 16)), 0>>

InRange(a, first, p) == NLe(first, a) /\ NLe(a, LastOf(first, p))

\* C8: for a target prefix P >= basePrefix the lookup hits if and only if the
\* address lies in the base network; the child returned is the only child at
\* P whose range contains the address, the one starting at the address with
\* its low 32 - P bits cleared.
C8_LookupFindsTheChild ==
    (choice = "4" /\ pc = "shown" /\ ip # <<>>) =>
        LET b      == TheBase
            P      == TheArg[2]
            a      == ip[1]
            inBase == InRange(a, b.addr, b.prefixlen)
            holding == { i \in 1..Len(Subs) : InRange(a, Subs[i].addr, P) }
        IN  /\ P >= b.prefixlen
            /\ (hit # <<>>) = inBase
            /\ Cardinality(holding) = (IF inBase THEN 1 ELSE 0)
            /\ (hit # <<>>) =>
                   /\ hit[1].prefixlen = P
                   /\ hit[1].addr = ClearLow(a, 32 - P)
                   /\ \E i \in holding : hit[1] = Subs[i]
                   /\ infos = <<describe_subnet(hit[1])>>
            /\ (hit = <<>>) => infos = <<>>

\* 192.168.1.130 in 192.168.1.0/24 at /27: found in 192.168.1.128/27.
C8_Witness ==
    /\ pc = "shown"
    /\ choice = "4"
    /\ base = <<[addr |-> FromOctets(192, 168, 1, 0), prefixlen |-> 24]>>
    /\ arg = <<FromInt(27)>>
    /\ ip = <<FromOctets(192, 168, 1, 130)>>
    /\ hit = <<[addr |-> FromOctets(192, 168, 1, 128), prefixlen |-> 27]>>

\* C9: a split by target prefix P fails, with no children and no descriptors,
\* exactly when P < basePrefix; otherwise newPrefix = P with the children of
\* the base at P, and for P = basePrefix the only child is the base itself.
C9_PrefixSplitFailsExactly ==
    (choice = "2" /\ pc = "shown") =>
        LET b == TheBase
            P == TheArg[2]
        IN  /\ (result = <<>>) = (P < b.prefixlen)
            /\ (result = <<>>) => infos = <<>>
            /\ (result # <<>>) =>
                   /\ NewPrefix = P
                   /\ Len(Subs) = 2^(P - b.prefixlen)
                   /\ Len(infos) = Len(Subs)
                   /\ \A i \in 1..Len(Subs) :
                          /\ Subs[i].prefixlen = P
                          /\ Subs[i].addr =
                                 IF i = 1 THEN b.addr
                                 ELSE NAdd(Subs[i - 1].addr, NPow2(32 - P))
                   /\ (P = b.prefixlen => Subs = <<b>>)

\* 10.0.0.0/24 asked for /16: refused.
C9_Witness ==
    /\ pc = "shown"
    /\ choice = "2"
    /\ base = <<[addr |-> FromOctets(10, 0, 0, 0), prefixlen |-> 24]>>
    /\ arg = <<FromInt(16)>>
    /\ result = <<>>
    /\ infos = <<>>

\* C10: a successful split by hosts H has newPrefix <= 30 (so it fails on a
\* /31 or /32 base), every child's descriptor has usable_hosts >= H, and a
\* child one bit smaller (2^(hostBits-1) - 2 usable) would hold fewer than H.
C10_HostsFitTightly ==
    (choice = "3") =>
        /\ (TheBase.prefixlen >= 31 => pc = "crashed")
        /\ (pc = "shown" =>
               /\ NewPrefix <= 30
               /\ Bits >= 2
               /\ Len(infos) = Len(Subs)
               /\ \A i \in 1..Len(infos) :
                      /\ infos[i].subnet[5] = NewPrefix
                      /\ NLe(TheArg, infos[i].usable_hosts)
               /\ NLt(NSub(NPow2(Bits - 1), <<0, 2>>), TheArg))

\* A /28 split for 7 hosts stays a /28: 14 usable; a /29 would give only 6.
C10_Witness ==
    /\ pc = "shown"
    /\ choice = "3"
    /\ TheBase.prefixlen = 28
    /\ arg = <<FromInt(7)>>
    /\ NewPrefix = 28
    /\ infos[1].usable_hosts = <<0, 14>>

=============================================================================
